---- MODULE Spec2Model ----
(***************************************************************************)
(* Caregiver scheduling (Project03_FinalCode.py): Caregiver records, the   *)
(* monthly Schedule builder and the PayReport calculator, as a state       *)
(* machine whose steps are the public calls of the three classes.          *)
(*                                                                         *)
(* Numbers: pay_rate and hours are Python floats in the source; the model  *)
(* uses integers (every value the model feeds in is integral, and sums and *)
(* products of such values are exact in both).                             *)
(* Strings: names, phones, dates, shifts and statuses are strings; an      *)
(* email is a sequence of one-character strings so that email.count('@')   *)
(* can be computed.                                                        *)
(***************************************************************************)
EXTENDS Integers, Sequences, FiniteSets, TLC

VARIABLES
    caregivers,   \* the caregiver list shared by Schedule and PayReport
    schedule,     \* Schedule.schedule: date string -> [AM, PM]
    call,         \* the last call made: [op, args]
    raised,       \* what the last call raised: NoError or ValueError
    returned,     \* what the last call returned (calculate_pay's mapping)
    log,          \* the _assign_shift calls of the last create_schedule
    calls         \* number of calls made so far (bounded by MaxCalls)

vars == <<caregivers, schedule, call, raised, returned, log, calls>>

----------------------------------------------------------------------------
(* Bounds of the model *)

MaxCaregivers == 2
MaxCalls == 3
MaxRuns == 2

----------------------------------------------------------------------------
(* Constants of the program *)

PREFERRED == "preferred"
AVAILABLE == "available"
UNAVAILABLE == "unavailable"

NO_COVERAGE == "No coverage"
\* Python's None, which no caregiver name of the model's inputs equals
None == "None"
SHIFT_HOURS == 6
MIN_YEAR == 2000
SHIFTS == <<"AM", "PM">>

NoError == "none"
ValueError == "ValueError"

----------------------------------------------------------------------------
(* Inputs the calls are made with *)

Names == {"", "Ann", "No coverage"}
Phones == {"", "301-1234"}
Emails == {<<>>, <<"a", "b">>, <<"a", "@", "b">>, <<"a", "@", "b", "@", "c">>}
PayRates == {-1, 25}
InitHours == {-6, 0, 40}
HourDeltas == {-1, 6}
Dates == {"2024-02-29", "2024-12-25"}
ShiftNames == {"AM", "PM"}
Statuses == {PREFERRED, AVAILABLE, UNAVAILABLE, "maybe"}
Months == {2, 12, 13}
Years == {1999, 2024}

----------------------------------------------------------------------------
(* Caregiver *)

RECURSIVE count(_, _)
count(s, ch) ==
    IF s = <<>> THEN 0
    ELSE (IF Head(s) = ch THEN 1 ELSE 0) + count(Tail(s), ch)

validate_input(name, phone, email, pay_rate) ==
    IF name = "" \/ phone = "" \/ email = <<>> THEN ValueError
    ELSE IF pay_rate < 0 THEN ValueError
    ELSE IF ~(count(email, "@") = 1) THEN ValueError
    ELSE NoError

Caregiver(name, phone, email, pay_rate, hours) ==
    [raised |-> validate_input(name, phone, email, pay_rate),
     self   |-> [name |-> name, phone |-> phone, email |-> email,
                 pay_rate |-> pay_rate, hours |-> hours,
                 availability |-> <<>>]]

set_availability(self, date, shift, status) ==
    IF status \notin {AVAILABLE, UNAVAILABLE, PREFERRED}
    THEN [raised |-> ValueError, self |-> self]
    ELSE [raised |-> NoError,
          self   |-> [self EXCEPT !.availability =
                        [k \in DOMAIN @ \cup {<<date, shift>>} |->
                            IF k = <<date, shift>> THEN status ELSE @[k]]]]

get_availability(self, date, shift) ==
    IF <<date, shift>> \in DOMAIN self.availability
    THEN self.availability[<<date, shift>>]
    ELSE AVAILABLE

\* add_hours with the addition made before the check
add_hours_before_check(self, hours) ==
    [raised |-> IF hours < 0 THEN ValueError ELSE NoError,
     self   |-> [self EXCEPT !.hours = @ + hours]]

add_hours(self, hours) ==
    IF hours < 0
    THEN [raised |-> ValueError, self |-> self]
    ELSE [raised |-> NoError, self |-> [self EXCEPT !.hours = @ + hours]]

----------------------------------------------------------------------------
(* calendar.Calendar().itermonthdays, as the standard library computes it *)

isleap(year) == year % 4 = 0 /\ (year % 100 # 0 \/ year % 400 = 0)

mdays == <<31, 28, 31, 30, 31, 30, 31, 31, 30, 31, 30, 31>>

RECURSIVE days_before_month(_, _)
days_before_month(year, month) ==
    IF month = 1 THEN 0
    ELSE days_before_month(year, month - 1) + mdays[month - 1]
         + (IF month - 1 = 2 /\ isleap(year) THEN 1 ELSE 0)

\* Monday is 0, as datetime.date(year, month, day).weekday()
weekday(year, month, day) ==
    LET p == year - 1
        ordinal == p * 365 + (p \div 4) - (p \div 100) + (p \div 400)
                   + days_before_month(year, month) + day
    IN (ordinal + 6) % 7

monthrange(year, month) ==
    [day1  |-> weekday(year, month, 1),
     ndays |-> mdays[month] + (IF month = 2 /\ isleap(year) THEN 1 ELSE 0)]

\* The days of the month's calendar grid: 0 for each padding slot of the
\* first and the last week, 1..ndays in between.
itermonthdays(year, month) ==
    LET mr == monthrange(year, month)
        days_before == mr.day1 % 7
        days_after  == (0 - mr.day1 - mr.ndays) % 7
    IN [i \in 1..days_before |-> 0]
       \o [i \in 1..mr.ndays |-> i]
       \o [i \in 1..days_after |-> 0]

----------------------------------------------------------------------------
(* Schedule *)

_validate_date(month, year) ==
    IF ~(1 <= month /\ month <= 12) THEN ValueError
    ELSE IF year < MIN_YEAR THEN ValueError
    ELSE NoError

\* f'{n:02d}'
fmt02d(n) == IF n < 10 THEN "0" \o ToString(n) ELSE ToString(n)

\* f'{year}-{month:02d}-{day:02d}'
format_date(year, month, day) ==
    ToString(year) \o "-" \o fmt02d(month) \o "-" \o fmt02d(day)

Indices(cs) == [i \in 1..Len(cs) |-> i]

\* available_caregivers without its filter
available_caregivers_unfiltered(cs, date, shift) == Indices(cs)

\* The list comprehensions of _assign_shift, as positions in the list.
available_caregivers(cs, date, shift) ==
    SelectSeq(Indices(cs),
              LAMBDA i : get_availability(cs[i], date, shift) # UNAVAILABLE)

preferred_caregivers(cs, date, shift) ==
    SelectSeq(Indices(cs),
              LAMBDA i : get_availability(cs[i], date, shift) = PREFERRED)

\* min_by_hours keeping the last of the smallest
RECURSIVE min_scan_last(_, _, _, _)
min_scan_last(cs, cands, k, best) ==
    IF k > Len(cands) THEN best
    ELSE min_scan_last(cs, cands, k + 1,
                       IF cs[cands[k]].hours <= cs[best].hours THEN cands[k] ELSE best)

min_by_hours_last(cs, cands) == min_scan_last(cs, cands, 2, cands[1])

\* min(candidates, key=lambda x: x.hours): the first of the smallest.
RECURSIVE min_scan(_, _, _, _)
min_scan(cs, cands, k, best) ==
    IF k > Len(cands) THEN best
    ELSE min_scan(cs, cands, k + 1,
                  IF cs[cands[k]].hours < cs[best].hours THEN cands[k] ELSE best)

min_by_hours(cs, cands) == min_scan(cs, cands, 2, cands[1])

\* assigned_caregiver without the preferred branch
assigned_caregiver_no_preference(cs, date, shift) ==
    LET available == available_caregivers(cs, date, shift)
    IN IF available # <<>> THEN min_by_hours(cs, available) ELSE 0

\* The caregiver _assign_shift picks: a position in the list, 0 for None.
assigned_caregiver(cs, date, shift) ==
    LET available == available_caregivers(cs, date, shift)
        preferred == preferred_caregivers(cs, date, shift)
    IN IF preferred # <<>> THEN min_by_hours(cs, preferred)
       ELSE IF available # <<>> THEN min_by_hours(cs, available)
       ELSE 0

\* st = [caregiver, schedule, log]: the Schedule object's list and mapping,
\* and the record of the picks made (date, shift, pick, hours before it).
_assign_shift(st, date, shift) ==
    LET cs == st.caregiver
        a  == assigned_caregiver(cs, date, shift)
        entry == [date |-> date, shift |-> shift, assigned |-> a,
                  hours |-> [i \in 1..Len(cs) |-> cs[i].hours]]
    IN IF a # 0
       THEN LET worked == add_hours(cs[a], SHIFT_HOURS).self
            IN [caregiver |-> [cs EXCEPT ![a] = worked],
                schedule  |-> [st.schedule EXCEPT ![date][shift] = worked.name],
                log       |-> Append(st.log, entry)]
       ELSE [caregiver |-> cs,
             schedule  |-> [st.schedule EXCEPT ![date][shift] = NO_COVERAGE],
             log       |-> Append(st.log, entry)]

\* _schedule_day leaving a date that is already scheduled as it is
_schedule_day_once(st, day, month, year) ==
    LET date == format_date(year, month, day)
        st0 == [st EXCEPT !.schedule =
                   [d \in DOMAIN @ \cup {date} |->
                       IF d = date THEN [AM |-> None, PM |-> None] ELSE @[d]]]
    IN IF date \in DOMAIN st.schedule
       THEN st
       ELSE _assign_shift(_assign_shift(st0, date, SHIFTS[1]), date, SHIFTS[2])

_schedule_day(st, day, month, year) ==
    LET date == format_date(year, month, day)
        st0 == [st EXCEPT !.schedule =
                   [d \in DOMAIN @ \cup {date} |->
                       IF d = date THEN [AM |-> None, PM |-> None] ELSE @[d]]]
        st1 == _assign_shift(st0, date, SHIFTS[1])
    IN _assign_shift(st1, date, SHIFTS[2])

RECURSIVE schedule_days(_, _, _, _, _)
schedule_days(st, days, k, month, year) ==
    IF k > Len(days) THEN st
    ELSE LET next_st == IF days[k] # 0
                        THEN _schedule_day(st, days[k], month, year)
                        ELSE st
         IN \* the day is evaluated before the loop goes on
            IF Len(next_st.log) >= 0
            THEN schedule_days(next_st, days, k + 1, month, year)
            ELSE st

create_schedule(cs, sched, month, year) ==
    IF _validate_date(month, year) # NoError
    THEN [raised |-> ValueError, caregiver |-> cs, schedule |-> sched, log |-> <<>>]
    ELSE LET st == schedule_days([caregiver |-> cs, schedule |-> sched, log |-> <<>>],
                                 itermonthdays(year, month), 1, month, year)
         IN [raised |-> NoError, caregiver |-> st.caregiver,
             schedule |-> st.schedule, log |-> st.log]

----------------------------------------------------------------------------
(* PayReport *)

\* calculate_pay keeping the first entry made for a name
RECURSIVE pay_loop_first(_, _, _)
pay_loop_first(cs, k, pay_data) ==
    IF k > Len(cs) THEN pay_data
    ELSE LET caregiver == cs[k]
             weekly_gross == caregiver.hours * caregiver.pay_rate
             item == [hours |-> caregiver.hours,
                      rate |-> caregiver.pay_rate,
                      weekly_gross |-> weekly_gross,
                      monthly_gross |-> weekly_gross * 4]
         IN pay_loop_first(cs, k + 1,
                [n \in DOMAIN pay_data \cup {caregiver.name} |->
                    IF n \in DOMAIN pay_data THEN pay_data[n] ELSE item])

calculate_pay_first(cs) == pay_loop_first(cs, 1, <<>>)

RECURSIVE pay_loop(_, _, _)
pay_loop(cs, k, pay_data) ==
    IF k > Len(cs) THEN pay_data
    ELSE LET caregiver == cs[k]
             weekly_gross == caregiver.hours * caregiver.pay_rate
             item == [hours |-> caregiver.hours,
                      rate |-> caregiver.pay_rate,
                      weekly_gross |-> weekly_gross,
                      monthly_gross |-> weekly_gross * 4]
         IN pay_loop(cs, k + 1,
                     [n \in DOMAIN pay_data \cup {caregiver.name} |->
                         IF n = caregiver.name THEN item ELSE pay_data[n]])

calculate_pay(cs) == pay_loop(cs, 1, <<>>)

----------------------------------------------------------------------------
(* The calls *)

NoCall == [op |-> "none", args |-> <<>>]

Init ==
    /\ caregivers = <<>>
    /\ schedule = <<>>
    /\ call = NoCall
    /\ raised = NoError
    /\ returned = <<>>
    /\ log = <<>>
    /\ calls = 0

\* caregivers.append(Caregiver(name, phone, email, pay_rate, hours))
Create ==
    \E name \in Names, phone \in Phones, email \in Emails,
       pay_rate \in PayRates, hours \in InitHours :
        /\ calls < MaxCalls
        /\ Len(caregivers) < MaxCaregivers
        /\ LET r == Caregiver(name, phone, email, pay_rate, hours)
           IN /\ raised' = r.raised
              /\ caregivers' = IF r.raised = NoError
                               THEN Append(caregivers, r.self)
                               ELSE caregivers
        /\ call' = [op |-> "create", args |-> <<>>]
        /\ returned' = <<>>
        /\ log' = <<>>
        /\ calls' = calls + 1
        /\ UNCHANGED schedule

\* caregivers[i].set_availability(date, shift, status)
SetAvailability ==
    \E i \in 1..Len(caregivers), date \in Dates, shift \in ShiftNames,
       status \in Statuses :
        /\ calls < MaxCalls
        /\ LET r == set_availability(caregivers[i], date, shift, status)
           IN /\ raised' = r.raised
              /\ caregivers' = [caregivers EXCEPT ![i] = r.self]
        /\ call' = [op |-> "set_availability", args |-> <<i, date, shift, status>>]
        /\ returned' = <<>>
        /\ log' = <<>>
        /\ calls' = calls + 1
        /\ UNCHANGED schedule

\* caregivers[i].add_hours(hours)
AddHours ==
    \E i \in 1..Len(caregivers), hours \in HourDeltas :
        /\ calls < MaxCalls
        /\ LET r == add_hours(caregivers[i], hours)
           IN /\ raised' = r.raised
              /\ caregivers' = [caregivers EXCEPT ![i] = r.self]
        /\ call' = [op |-> "add_hours", args |-> <<i, hours>>]
        /\ returned' = <<>>
        /\ log' = <<>>
        /\ calls' = calls + 1
        /\ UNCHANGED schedule

\* schedule.create_schedule(month, year), month and year drawn from the
\* given sets, while fewer than limit calls have been made
Run(months, years, limit) ==
    \E month \in months, year \in years :
        /\ calls < limit
        /\ LET r == create_schedule(caregivers, schedule, month, year)
           IN /\ raised' = r.raised
              /\ caregivers' = r.caregiver
              /\ schedule' = r.schedule
              /\ log' = r.log
        /\ call' = [op |-> "create_schedule", args |-> <<month, year>>]
        /\ returned' = <<>>
        /\ calls' = calls + 1

CreateSchedule == Run(Months, Years, MaxCalls)

\* pay_report.calculate_pay()
CalculatePay ==
    /\ calls < MaxCalls
    /\ returned' = calculate_pay(caregivers)
    /\ raised' = NoError
    /\ call' = [op |-> "calculate_pay", args |-> <<>>]
    /\ log' = <<>>
    /\ calls' = calls + 1
    /\ UNCHANGED <<caregivers, schedule>>

Next ==
    \/ Create
    \/ SetAvailability
    \/ AddHours
    \/ CreateSchedule
    \/ CalculatePay

Spec == Init /\ [][Next]_vars

----------------------------------------------------------------------------
(* A roster prepared for scheduling: caregivers created with valid input,  *)
(* then given availability by set_availability calls.                       *)

RosterNames == <<"Ann", "Bea", "Cy", "Dee">>
RosterHours == {0, 6}
LeapDay == "2024-02-29"
AvailabilityPlans ==
    { <<>>,
      << <<LeapDay, "AM", PREFERRED>> >>,
      << <<LeapDay, "AM", UNAVAILABLE>>, <<LeapDay, "PM", UNAVAILABLE>> >>,
      << <<LeapDay, "AM", AVAILABLE>>, <<LeapDay, "PM", PREFERRED>> >> }

RECURSIVE with_availability(_, _)
with_availability(self, plan) ==
    IF plan = <<>> THEN self
    ELSE with_availability(
             set_availability(self, Head(plan)[1], Head(plan)[2], Head(plan)[3]).self,
             Tail(plan))

Prepared(name) ==
    { with_availability(Caregiver(name, "301-1234", <<"a", "@", "b">>, 25, h).self, plan) :
        h \in RosterHours, plan \in AvailabilityPlans }

Rosters ==
    UNION { { r \in [1..n -> UNION { Prepared(RosterNames[i]) : i \in 1..n }] :
                \A i \in 1..n : r[i].name = RosterNames[i] } :
            n \in 0..MaxCaregivers }

InitSched ==
    /\ caregivers \in Rosters
    /\ schedule = <<>>
    /\ call = NoCall
    /\ raised = NoError
    /\ returned = <<>>
    /\ log = <<>>
    /\ calls = 0

\* The month the prepared availability is about, scheduled again and again
SchedMonths == {2}
SchedYears == {2024}

Reschedule == Run(SchedMonths, SchedYears, MaxRuns)

SpecSched == InitSched /\ [][Reschedule]_vars

----------------------------------------------------------------------------
(* The caregiver records and the pay report alone *)

NextCare ==
    \/ Create
    \/ SetAvailability
    \/ AddHours
    \/ CalculatePay

SpecCare == Init /\ [][NextCare]_vars

----------------------------------------------------------------------------
(* Vocabulary of the properties *)

\* The status a caregiver record holds for a cell, read from its map.
Status(c, date, shift) ==
    IF <<date, shift>> \in DOMAIN c.availability
    THEN c.availability[<<date, shift>>]
    ELSE "available"

\* The last call was a create_schedule that returned.
Ran == call.op = "create_schedule" /\ raised = NoError

HoursOf(cs) == [i \in 1..Len(cs) |-> cs[i].hours]

RECURSIVE SumSeq(_)
SumSeq(q) == IF q = <<>> THEN 0 ELSE Head(q) + SumSeq(Tail(q))

TotalHours(cs) == SumSeq(HoursOf(cs))

\* The hours right after the k-th pick of the run logged in lg, cs being the
\* caregivers as the run left them.
HoursAfter(cs, lg, k) == IF k < Len(lg) THEN lg[k + 1].hours ELSE HoursOf(cs)

Preferring(cs, lg, k) ==
    {i \in 1..Len(cs) : Status(cs[i], lg[k].date, lg[k].shift) = "preferred"}

Eligible(cs, lg, k) ==
    {i \in 1..Len(cs) : Status(cs[i], lg[k].date, lg[k].shift) # "unavailable"}

Candidates(cs, lg, k) ==
    IF Preferring(cs, lg, k) # {} THEN Preferring(cs, lg, k) ELSE Eligible(cs, lg, k)

\* The pick of entry k has the lowest hours of its candidates, and is the
\* earliest in the list of those with the lowest hours.
LowestEarliest(cs, lg, k) ==
    LET a == lg[k].assigned
        h == lg[k].hours
    IN Candidates(cs, lg, k) # {} =>
          /\ a \in Candidates(cs, lg, k)
          /\ \A j \in Candidates(cs, lg, k) :
                h[a] < h[j] \/ (h[a] = h[j] /\ a <= j)

\* Each pick adds 6 hours to the picked caregiver and to nobody else.
HoursChain(cs, lg) ==
    \A k \in 1..Len(lg) :
        HoursAfter(cs, lg, k) =
            [i \in 1..Len(cs) |->
                lg[k].hours[i] + (IF i = lg[k].assigned THEN 6 ELSE 0)]

\* The picks come in pairs: a date's AM, then the same date's PM.
AMThenPM(lg) ==
    /\ Len(lg) % 2 = 0
    /\ \A k \in 1..Len(lg) :
          IF k % 2 = 1
          THEN lg[k].shift = "AM"
          ELSE lg[k].shift = "PM" /\ lg[k].date = lg[k - 1].date

Covered(lg) == Cardinality({k \in 1..Len(lg) : lg[k].assigned # 0})

PicksOf(lg, i) == Cardinality({k \in 1..Len(lg) : lg[k].assigned = i})

\* What a cell shows for a pick.
CellText(cs, a) == IF a = 0 THEN "No coverage" ELSE cs[a].name

DaysInMonth(month, year) ==
    IF month = 2
    THEN (IF year % 4 = 0 /\ (year % 100 # 0 \/ year % 400 = 0) THEN 29 ELSE 28)
    ELSE IF month \in {4, 6, 9, 11} THEN 30 ELSE 31

\* Every (date, shift) of a month.
MonthCells(month, year) ==
    {<<format_date(year, month, d), sh>> :
        d \in 1..DaysInMonth(month, year), sh \in {"AM", "PM"}}

----------------------------------------------------------------------------
(* C1 *)

\* C1: after create_schedule(month, year) returns, the schedule's keys are
\* exactly the days of that month, and every key holds exactly an AM and a PM
\* entry, neither left as None; also after calls for different months on the
\* same Schedule.
C1_ScheduleIsExactlyTheMonth ==
    Ran =>
        /\ DOMAIN schedule =
              {format_date(call.args[2], call.args[1], d) :
                  d \in 1..DaysInMonth(call.args[1], call.args[2])}
        /\ Cardinality(DOMAIN schedule) = DaysInMonth(call.args[1], call.args[2])
        /\ \A d \in DOMAIN schedule :
              /\ DOMAIN schedule[d] = {"AM", "PM"}
              /\ schedule[d].AM # None
              /\ schedule[d].PM # None

----------------------------------------------------------------------------
(* C2 *)

\* C2: a pick is made for every (date, shift) of the scheduled month, and a
\* caregiver whose status for a (date, shift) is Unavailable is never the
\* caregiver picked for it: the cell is not filled from that caregiver, whose
\* hours are the same after the pick as before it.
C2_UnavailableNeverPicked ==
    Ran =>
        /\ {<<log[k].date, log[k].shift>> : k \in 1..Len(log)} =
              MonthCells(call.args[1], call.args[2])
        /\ \A k \in 1..Len(log) : \A i \in 1..Len(caregivers) :
              Status(caregivers[i], log[k].date, log[k].shift) = "unavailable" =>
                  /\ log[k].assigned # i
                  /\ HoursAfter(caregivers, log, k)[i] = log[k].hours[i]

\* A run in which an Unavailable caregiver with fewer hours was passed over
\* for another one.
C2_Witness ==
    /\ Ran
    /\ \E k \in 1..Len(log) : \E i \in 1..Len(caregivers) :
          /\ Status(caregivers[i], log[k].date, log[k].shift) = "unavailable"
          /\ log[k].assigned \notin {0, i}
          /\ log[k].hours[i] < log[k].hours[log[k].assigned]

----------------------------------------------------------------------------
(* C3 *)

\* C3: if some caregiver has status Preferred for a (date, shift), the
\* caregiver picked for it has status Preferred for it, whatever the hours of
\* the caregivers that are merely Available.
C3_PreferredFirst ==
    Ran =>
        \A k \in 1..Len(log) :
            Preferring(caregivers, log, k) # {} =>
                log[k].assigned \in Preferring(caregivers, log, k)

\* A run in which a Preferred caregiver was picked over an Available one with
\* strictly fewer hours.
C3_Witness ==
    /\ Ran
    /\ \E k \in 1..Len(log) : \E j \in 1..Len(caregivers) :
          /\ log[k].assigned \in Preferring(caregivers, log, k)
          /\ Status(caregivers[j], log[k].date, log[k].shift) = "available"
          /\ log[k].hours[j] < log[k].hours[log[k].assigned]

----------------------------------------------------------------------------
(* C4 *)

\* C4: within the candidates of a (date, shift) (the preferred ones if any,
\* else the available ones) the pick has the lowest hours at that moment and,
\* of those with the lowest hours, is the earliest in the list; the hours
\* compared carry 6 for every earlier pick of the run, AM being picked before
\* the same day's PM.
C4_LowestHoursEarliestInList ==
    Ran =>
        /\ \A k \in 1..Len(log) : LowestEarliest(caregivers, log, k)
        /\ HoursChain(caregivers, log)
        /\ AMThenPM(log)

\* A run with a tie broken towards the earlier caregiver, and with a PM pick
\* that went to another caregiver only because of the 6 hours the AM pick of
\* the same day had just received.
C4_Witness ==
    /\ Ran
    /\ \E k \in 1..Len(log) : \E j \in Candidates(caregivers, log, k) :
          /\ log[k].assigned # 0
          /\ log[k].assigned < j
          /\ log[k].hours[j] = log[k].hours[log[k].assigned]
    /\ \E k \in 2..Len(log) :
          /\ log[k].shift = "PM"
          /\ log[k - 1].assigned \in Candidates(caregivers, log, k)
          /\ log[k].assigned \notin {0, log[k - 1].assigned}
          /\ log[k].assigned > log[k - 1].assigned
          /\ log[k - 1].hours[log[k].assigned] = log[k - 1].hours[log[k - 1].assigned]

----------------------------------------------------------------------------
(* C5 *)

\* C5: add_hours(amount) with amount < 0 raises and leaves the caregivers as
\* they were; set_availability with a status outside {Preferred, Available,
\* Unavailable} raises and leaves the caregivers, their availability maps
\* included, as they were.
C5_RejectedCallChangesNothing ==
    [][ /\ (call'.op = "add_hours" /\ call'.args[2] < 0) =>
              (raised' = ValueError /\ caregivers' = caregivers)
        /\ (call'.op = "set_availability"
            /\ call'.args[4] \notin {"preferred", "available", "unavailable"}) =>
              (raised' = ValueError /\ caregivers' = caregivers)
      ]_vars

\* A set_availability with an invalid status was rejected for a (date, shift)
\* the caregiver already holds a status for.
C5_Witness ==
    /\ call.op = "set_availability"
    /\ raised = ValueError
    /\ call.args[4] \notin {"preferred", "available", "unavailable"}
    /\ <<call.args[2], call.args[3]>> \in DOMAIN caregivers[call.args[1]].availability

----------------------------------------------------------------------------
(* C6 *)

\* C6: every caregiver that was created has pay_rate >= 0 and hours >= 0 in
\* every state, and its hours never decrease from one state to the next.
C6_NonNegativeNeverDecreasing ==
    [][ /\ \A i \in 1..Len(caregivers') :
              caregivers'[i].pay_rate >= 0 /\ caregivers'[i].hours >= 0
        /\ \A i \in 1..Len(caregivers) :
              caregivers'[i].hours >= caregivers[i].hours
      ]_vars

----------------------------------------------------------------------------
(* C7 *)

\* C7: a (date, shift) cell is "No coverage" if and only if no caregiver has
\* a status other than Unavailable for it; the run then raises nothing and no
\* caregiver's hours change for that shift; with an empty list every cell is
\* "No coverage".
C7_NoCoverageIffNobodyAvailable ==
    Ran =>
        /\ \A k \in 1..Len(log) :
              /\ (schedule[log[k].date][log[k].shift] = "No coverage")
                    <=> (Eligible(caregivers, log, k) = {})
              /\ (schedule[log[k].date][log[k].shift] = "No coverage")
                    => HoursAfter(caregivers, log, k) = log[k].hours
        /\ (caregivers = <<>>) =>
              \A d \in DOMAIN schedule :
                  schedule[d].AM = "No coverage" /\ schedule[d].PM = "No coverage"

----------------------------------------------------------------------------
(* C8 *)

\* C8: a run leaves each caregiver with its hours before the run plus 6 for
\* each cell it was picked for; the sum of the increases is 6 times the
\* number of cells that are not "No coverage"; a single caregiver that is
\* never Unavailable fills every cell and gains days x 2 x 6 hours.
C8_HourAccounting ==
    (Ran /\ log # <<>>) =>
        /\ \A i \in 1..Len(caregivers) :
              caregivers[i].hours = log[1].hours[i] + 6 * PicksOf(log, i)
        /\ TotalHours(caregivers) - SumSeq(log[1].hours) =
              6 * Cardinality({k \in 1..Len(log) :
                                  schedule[log[k].date][log[k].shift] # "No coverage"})
        /\ (Len(caregivers) = 1
            /\ \A k \in 1..Len(log) : Eligible(caregivers, log, k) # {}) =>
              /\ \A k \in 1..Len(log) :
                    schedule[log[k].date][log[k].shift] = caregivers[1].name
              /\ caregivers[1].hours =
                    log[1].hours[1] + DaysInMonth(call.args[1], call.args[2]) * 2 * 6

----------------------------------------------------------------------------
(* C9 *)

\* C9: create_schedule run again for the same (month, year) on the same
\* caregivers picks from the hours the first run left, overwrites every cell
\* of that month with the new pick, and adds 6 hours per covered shift again,
\* so the total grows by 6 times the number of covered shifts of the second
\* run.
C9_RerunAddsHoursAgain ==
    [][ (/\ Ran
         /\ call'.op = "create_schedule"
         /\ call'.args = call.args
         /\ raised' = NoError
         /\ calls' = calls + 1) =>
            /\ Len(log') = Len(log)
            /\ Len(log') > 0
            /\ \A k \in 1..Len(log') :
                  log'[k].date = log[k].date /\ log'[k].shift = log[k].shift
            /\ DOMAIN schedule' = DOMAIN schedule
            /\ log'[1].hours = HoursOf(caregivers)
            /\ \A k \in 1..Len(log') : LowestEarliest(caregivers', log', k)
            /\ HoursChain(caregivers', log')
            /\ \A k \in 1..Len(log') :
                  schedule'[log'[k].date][log'[k].shift] =
                      CellText(caregivers', log'[k].assigned)
            /\ TotalHours(caregivers') = TotalHours(caregivers) + 6 * Covered(log')
            /\ (Covered(log') > 0 => TotalHours(caregivers') > TotalHours(caregivers))
      ]_vars

\* A second run of the same month that covered shifts, on two caregivers or
\* more, the first run having left them 6 hours apart.
C9_Witness ==
    /\ Ran
    /\ calls = 2
    /\ Len(caregivers) >= 2
    /\ Covered(log) > 0
    /\ \E i, j \in 1..Len(caregivers) : log[1].hours[i] = log[1].hours[j] + 6
    /\ \E i \in 1..Len(caregivers) : log[1].hours[i] > 6

----------------------------------------------------------------------------
(* C10 *)

\* The last caregiver of the list carrying the name.
LastNamed(cs, name) ==
    CHOOSE i \in 1..Len(cs) :
        /\ cs[i].name = name
        /\ \A j \in 1..Len(cs) : cs[j].name = name => j <= i

\* C10: calculate_pay returns a mapping whose keys are exactly the names in
\* the caregiver list; the entry of a name is that of the last caregiver with
\* the name: its hours, its pay_rate, weekly_gross = hours x rate and
\* monthly_gross = weekly_gross x 4; the call changes no caregiver.
C10_PayOfLastNamed ==
    [][ call'.op = "calculate_pay" =>
            /\ caregivers' = caregivers
            /\ DOMAIN returned' = {caregivers[i].name : i \in 1..Len(caregivers)}
            /\ \A name \in DOMAIN returned' :
                  LET c == caregivers[LastNamed(caregivers, name)]
                  IN /\ DOMAIN returned'[name] =
                           {"hours", "rate", "weekly_gross", "monthly_gross"}
                     /\ returned'[name].hours = c.hours
                     /\ returned'[name].rate = c.pay_rate
                     /\ returned'[name].weekly_gross = c.hours * c.pay_rate
                     /\ returned'[name].monthly_gross = c.hours * c.pay_rate * 4
      ]_vars

\* A pay report of two caregivers of one name and different hours, the last
\* with 40 hours at rate 25: 1000 a week, 4000 a month.
C10_Witness ==
    /\ call.op = "calculate_pay"
    /\ Len(caregivers) = 2
    /\ caregivers[1].name = caregivers[2].name
    /\ caregivers[1].hours # caregivers[2].hours
    /\ caregivers[2].hours = 40
    /\ caregivers[2].pay_rate = 25
    /\ returned[caregivers[2].name].weekly_gross = 1000
    /\ returned[caregivers[2].name].monthly_gross = 4000

====
